---- MODULE Spec2Model ----
(***************************************************************************)
(* Model of tools/cpp_expander.py: CppDirectiveTranslator, MacroContext    *)
(* and CppExpander, run over a small file system of C++ sources.           *)
(***************************************************************************)
EXTENDS Integers, Sequences, FiniteSets, TLC

VARIABLES files, exclude_pattern, stack, heap, context, ifblocks,
          in_unreachable_block, outfile, status, resolved, opened, trace,
          source, reader

vars == <<files, exclude_pattern, stack, heap, context, ifblocks,
          in_unreachable_block, outfile, status, resolved, opened, trace,
          source, reader>>

\* ------------------------------------------------------------------ bounds
MaxLen == 2
MaxBody == 2
RecursionLimit == 4

\* ------------------------------------------------------- directive values
\* A logical line after CppDirective.parse: k is the directive class
\* ("none" for plain code), a its argument, q the quote flag of an Include.
Line(k, a) == [k |-> k, a |-> a, q |-> FALSE]
Code == Line("none", "")
Include(target, quote) == [k |-> "include", a |-> target, q |-> quote]
Define(id) == Line("define", id)
Undef(id) == Line("undef", id)
Pragma(cmd) == Line("pragma", cmd)
If(expr) == Line("if", expr)
Ifdef(id) == Line("ifdef", id)
Ifndef(id) == Line("ifndef", id)
Elif(expr) == Line("elif", expr)
Else == Line("else", "")
Endif == Line("endif", "")

IfLike == {"if", "ifdef", "ifndef"}
\* the lines that take no part in the conditional handling of expand
Unconditional == {"none", "define", "undef", "include", "pragma"}

\* CppDirectiveTranslator._re_ifdef on the expressions of the inputs
NoMatch == [neg |-> FALSE, id |-> ""]
re_ifdef(expr) ==
  CASE expr = "defined(X)" -> [neg |-> FALSE, id |-> "X"]
    [] expr = "!defined(X)" -> [neg |-> TRUE, id |-> "X"]
    [] expr = "defined(Y)" -> [neg |-> FALSE, id |-> "Y"]
    [] OTHER -> NoMatch

\* ------------------------------------------------------------ file system
Paths == {"main", "a.h", "b.h", "e.h", "s.h"}
LocalPaths == {"main", "a.h", "b.h", "e.h"}
IncludeDirPaths == {"s.h"}
None == "None"

\* "_CPPEXPANDER_" + sha256(path)[:16]: one name per resolved path
macro_name(path) ==
  CASE path = "main" -> "_CPPEXPANDER_MAIN"
    [] path = "a.h" -> "_CPPEXPANDER_A"
    [] path = "b.h" -> "_CPPEXPANDER_B"
    [] path = "e.h" -> "_CPPEXPANDER_E"
    [] OTHER -> "_CPPEXPANDER_S"

\* mutant: a file opened once is never resolved again ("ever seen" cache)
resolve_include_path_seen(target, basepath) ==
  IF target \in {opened[i] : i \in DOMAIN opened} THEN "None"
  ELSE IF basepath # "None" /\ target \in {"main", "a.h", "b.h", "e.h"} THEN target
  ELSE IF target = "s.h" THEN target
  ELSE "None"

\* quoted form: walk the parents of the including file, then the include
\* directories; angle form: the include directories only
resolve_include_path(target, basepath) ==
  IF basepath # None /\ target \in LocalPaths THEN target
  ELSE IF target \in IncludeDirPaths THEN target
  ELSE None

NoPattern == "NoPattern"
Pattern == "e"
\* exclude_pattern.search(target) for the configured pattern "e"
search(pattern, target) == pattern = Pattern /\ target \in {"e.h", "ext.h"}

exclude_matches(pattern, target) ==
  pattern # NoPattern /\ search(pattern, target)

\* ------------------------------------------------------------ MacroContext
\* mutant: #define leaves the context as it is
define_forgets(c, n) == c

EmptyContext == [defined |-> {}, not_defined |-> {}]
define(c, n) == [defined |-> c.defined \cup {n}, not_defined |-> c.not_defined \ {n}]
undef(c, n) == [defined |-> c.defined \ {n}, not_defined |-> c.not_defined \cup {n}]
is_defined(c, n) ==
  IF n \in c.defined THEN "True"
  ELSE IF n \in c.not_defined THEN "False"
  ELSE None
\* mutant: the merge keeps what the first context knows
merge_first(c, o) == c

merge(c, o) == [defined |-> c.defined \cap o.defined,
                not_defined |-> c.not_defined \cap o.not_defined]

\* --------------------------------------------------- CppDirectiveTranslator
\* an element of the translator's output stream; synth marks a line built
\* by _directive_line (its raw text is str(directive)), idx the source line
Src(line, idx) == [line |-> line, synth |-> FALSE, idx |-> idx]
directive_line(d, idx) == [line |-> d, synth |-> TRUE, idx |-> idx]

Last(s) == s[Len(s)]
Front(s) == SubSeq(s, 1, Len(s) - 1)

\* mutant: the #endif lines owed for #elif are forgotten
owed_endifs_none(tifblocks) == 0

\* the extra #endif lines the innermost open block owes for its #elif lines
owed_endifs(tifblocks) == Last(tifblocks)

\* mutant: "#else without #if" is not checked
structural_error_no_else(d, tifblocks) ==
  d.k \in {"elif", "endif"} /\ Len(tifblocks) = 0

\* "#elif/#else/#endif without #if"
structural_error(d, tifblocks) ==
  d.k \in {"elif", "else", "endif"} /\ Len(tifblocks) = 0

\* mutant: the "not in #if block" test is missing
starts_guard_nested(d, tifblocks, emulation, path) ==
  /\ d.k = "pragma" /\ d.a = "once"
  /\ ~emulation /\ path # "None"

\* mutant: the test of _include_guard_emulation inverted
starts_guard_inverted(d, tifblocks, emulation, path) ==
  /\ d.k = "pragma" /\ d.a = "once"
  /\ Len(tifblocks) = 0
  /\ emulation /\ path # None

\* a top-level "#pragma once" that starts the include guard emulation
starts_guard(d, tifblocks, emulation, path) ==
  /\ d.k = "pragma" /\ d.a = "once"
  /\ Len(tifblocks) = 0
  /\ ~emulation /\ path # None

\* one iteration of CppDirectiveTranslator.__call__ on source line idx
translate(d, idx, tifblocks, emulation, path) ==
  IF d.k = "none"
  THEN [err |-> FALSE, out |-> <<Src(d, idx)>>, tifblocks |-> tifblocks,
        emulation |-> emulation]
  ELSE
    LET err == structural_error(d, tifblocks)
        ok == ~err
        pre1 == IF ~ok THEN <<>>
                ELSE IF d.k = "elif" THEN <<directive_line(Else, idx)>>
                ELSE IF d.k = "endif"
                     THEN [i \in 1..owed_endifs(tifblocks) |-> directive_line(Endif, idx)]
                ELSE <<>>
        res1 == IF d.k = "elif" THEN directive_line(If(d.a), idx) ELSE Src(d, idx)
        ifb1 == IF ~ok THEN tifblocks
                ELSE IF d.k \in IfLike THEN Append(tifblocks, 0)
                ELSE IF d.k = "elif"
                     THEN [tifblocks EXCEPT ![Len(tifblocks)] = @ + 1]
                ELSE IF d.k = "endif" THEN Front(tifblocks)
                ELSE tifblocks
        m == re_ifdef(res1.line.a)
        res2 == IF res1.line.k = "if" /\ m # NoMatch
                THEN IF m.neg THEN directive_line(Ifndef(m.id), idx)
                     ELSE directive_line(Ifdef(m.id), idx)
                ELSE res1
        once == starts_guard(res2.line, ifb1, emulation, path)
        pre3 == IF once THEN <<directive_line(Ifndef(macro_name(path)), idx)>> ELSE <<>>
        res3 == IF once THEN directive_line(Define(macro_name(path)), idx) ELSE res2
    IN [err |-> err, out |-> pre1 \o pre3 \o <<res3>>, tifblocks |-> ifb1,
        emulation |-> emulation \/ once]

\* -------------------------------------------------------------- CppExpander
\* frames of CppExpander.ifblocks; contexts holds references into heap
\* (f: contexts[False], t: contexts[True]), 0 when the frame has none
IfBlock(directive) ==
  [cls |-> "IfBlock", directive |-> directive, current |-> TRUE,
   no_output |-> FALSE, contexts |-> [f |-> 0, t |-> 0], determined |-> None]

\* mutant: an undetermined frame marked silent like a determined one
UndeterminedIfBlock_silent(directive, cfalse, ctrue) ==
  [cls |-> "UndeterminedIfBlock", directive |-> directive, current |-> TRUE,
   no_output |-> TRUE, contexts |-> [f |-> cfalse, t |-> ctrue], determined |-> None]

\* mutant: contexts[False] is the entry context itself, not a copy of it
UndeterminedIfBlock_shared(directive, cfalse, ctrue) ==
  [cls |-> "UndeterminedIfBlock", directive |-> directive, current |-> TRUE,
   no_output |-> FALSE, contexts |-> [f |-> ctrue, t |-> ctrue], determined |-> None]

UndeterminedIfBlock(directive, cfalse, ctrue) ==
  [cls |-> "UndeterminedIfBlock", directive |-> directive, current |-> TRUE,
   no_output |-> FALSE, contexts |-> [f |-> cfalse, t |-> ctrue], determined |-> None]

\* mutant: the #else and #endif of a determined block are not silenced
DeterminedIfBlock_loud(directive, determined) ==
  [cls |-> "DeterminedIfBlock", directive |-> directive, current |-> TRUE,
   no_output |-> FALSE, contexts |-> [f |-> 0, t |-> 0], determined |-> determined]

DeterminedIfBlock(directive, determined) ==
  [cls |-> "DeterminedIfBlock", directive |-> directive, current |-> TRUE,
   no_output |-> TRUE, contexts |-> [f |-> 0, t |-> 0], determined |-> determined]

Not(b) == IF b = "True" THEN "False" ELSE "True"

\* mutant: only #ifdef is ever decided
is_determined_ifdef_only(directive, c) ==
  IF directive.k = "ifdef" /\ is_defined(c, directive.a) # "None"
  THEN is_defined(c, directive.a)
  ELSE "None"

\* "True" / "False" when the directive is decided by the context, else None
is_determined(directive, c) ==
  IF directive.k = "ifdef" /\ is_defined(c, directive.a) # None
  THEN is_defined(c, directive.a)
  ELSE IF directive.k = "ifndef" /\ is_defined(c, directive.a) # None
  THEN Not(is_defined(c, directive.a))
  ELSE None

\* the two forks built by UndeterminedIfBlock.__init__: contexts[True] is the
\* entry context object itself, contexts[False] a copy of it
true_fork(directive, c) ==
  IF directive.k = "ifdef" THEN define(c, directive.a)
  ELSE IF directive.k = "ifndef" THEN undef(c, directive.a)
  ELSE c

false_fork(directive, c) ==
  IF directive.k = "ifdef" THEN undef(c, directive.a)
  ELSE IF directive.k = "ifndef" THEN define(c, directive.a)
  ELSE c

\* in_unreachable_block after the #else of a DeterminedIfBlock; determined is
\* the local variable of expand, last assigned by an is_determined call
else_unreachable(ifblock, determined) == determined = "True"

\* mutant: no block is taken for an include guard
is_include_guard_never(ifblock, h) == FALSE

\* the include guard special case at #endif of an UndeterminedIfBlock
is_include_guard(ifblock, h) ==
  /\ ifblock.directive.k = "ifndef"
  /\ is_defined(h[ifblock.contexts.t], ifblock.directive.a) = "True"
  /\ ifblock.current = TRUE

\* the context after #endif of an UndeterminedIfBlock
endif_context(ifblock, h) ==
  IF is_include_guard(ifblock, h)
  THEN h[ifblock.contexts.t]
  ELSE merge(h[ifblock.contexts.t], h[ifblock.contexts.f])

\* mutant: the new context is not handed to the frames still open
propagate_none(blocks, ref) == blocks

\* parent_ifblock.contexts[parent_ifblock.current] = self.context, for every
\* UndeterminedIfBlock still open
propagate(blocks, ref) ==
  [i \in 1..Len(blocks) |->
     IF blocks[i].cls = "UndeterminedIfBlock"
     THEN IF blocks[i].current
          THEN [blocks[i] EXCEPT !.contexts.t = ref]
          ELSE [blocks[i] EXCEPT !.contexts.f = ref]
     ELSE blocks[i]]

\* mutant: the exclusion pattern is ignored
tries_resolve_always(pattern, target) == TRUE

\* whether an #include reached in reachable code is handed to
\* resolve_include_path
tries_resolve(pattern, target) == ~exclude_matches(pattern, target)

\* mutant: the "continue" after self.expand(target) is missing
falls_through_always(target) == TRUE

\* mutant: an #include that resolves to no file is dropped
falls_through_never(target) == FALSE

\* whether an #include line falls through to the write at the end of the
\* loop body: a resolved one is expanded and skipped by "continue"
falls_through(target) == target = None

\* mutant: nothing is written
writes_nothing(unreachable, no_output) == FALSE

\* mutant: the test of in_unreachable_block before the write is missing
writes_unreachable(unreachable, no_output) == ~no_output

\* whether a line that came through the conditional handling is written
writes(unreachable, no_output) == ~unreachable /\ ~no_output

\* mutant: the body of a block decided false is taken for reachable
if_unreachable_never(determined) == FALSE

\* in_unreachable_block for the body of a freshly pushed DeterminedIfBlock
if_unreachable(determined) == determined = "False"

\* ------------------------------------------------------------------ inputs
SeqsUpTo(S, n) == UNION {[1..k -> S] : k \in 0..n}

\* lines of the top-level files tried with the plain headers
FreeTokens ==
  {Code, Define("X"), Undef("X"), Ifdef("X"), Ifndef("X"), If("E1"),
   If("defined(X)"), If("!defined(X)"), Elif("E2"), Else, Endif,
   Include("a.h", TRUE), Include("e.h", TRUE),
   Include("ext.h", TRUE), Include("missing.h", TRUE),
   Include("s.h", FALSE), Include("a.h", FALSE),
   Pragma("once"), Pragma("pack")}

\* lines of the top-level files tried with every pair of headers
HeaderTokens ==
  {Code, Define("X"), Ifdef("X"), If("E1"), Else, Endif,
   Include("a.h", TRUE), Include("b.h", TRUE)}

\* lines of the top-level files tried with no exclusion pattern
IncludeTokens ==
  {Code, Include("a.h", TRUE), Include("e.h", TRUE), Include("ext.h", TRUE),
   Include("missing.h", TRUE), Include("s.h", FALSE), Include("a.h", FALSE)}

\* lines of the bodies of the conditional blocks
BodyTokens ==
  {Code, Define("X"), Undef("X"), Include("a.h", TRUE),
   Ifdef("X"), If("E1"), Else, Endif}

\* nesting depth of the conditional blocks open before line i of s
RECURSIVE DepthBefore(_, _)
DepthBefore(s, i) ==
  IF i <= 1 THEN 0
  ELSE DepthBefore(s, i - 1)
       + (IF s[i - 1].k \in IfLike THEN 1 ELSE IF s[i - 1].k = "endif" THEN -1 ELSE 0)

\* index of the #endif that closes the block opened by line o of s (0: none)
MatchEndif(s, o) ==
  LET c == {n \in (o + 1)..Len(s) :
              s[n].k = "endif" /\ DepthBefore(s, n) = DepthBefore(s, o) + 1}
  IN IF c = {} THEN 0 ELSE CHOOSE n \in c : \A x \in c : n <= x

\* the #else / #elif lines of the block opened by line o of s
OwnElses(s, o) ==
  {e \in (o + 1)..(MatchEndif(s, o) - 1) :
     s[e].k \in {"else", "elif"} /\ DepthBefore(s, e) = DepthBefore(s, o) + 1}

\* every conditional line of s belongs to a block opened and closed in s,
\* with at most one #else, and no #elif after it
Balanced(s) ==
  /\ \A i \in 1..Len(s) :
       /\ s[i].k \in {"elif", "else", "endif"} => DepthBefore(s, i) > 0
       /\ s[i].k \in IfLike =>
            /\ MatchEndif(s, i) # 0
            /\ \A e1, e2 \in OwnElses(s, i) :
                 s[e1].k = "else" /\ e1 # e2 => e2 < e1
  /\ DepthBefore(s, Len(s) + 1) = 0

Bodies(n) == {s \in SeqsUpTo(BodyTokens, n) : Balanced(s)}

SmallBodies == {<<>>, <<Code>>, <<Define("X")>>}

FreeMains == SeqsUpTo(FreeTokens, MaxLen)
HeaderMains == SeqsUpTo(HeaderTokens, MaxLen)
IncludeMains == SeqsUpTo(IncludeTokens, MaxLen)

CondMains ==
  {pre \o <<open>> \o ab[1] \o <<Else>> \o ab[2] \o <<Endif, Code>> :
     pre \in {<<>>, <<Define("X")>>, <<Undef("X")>>},
     open \in {Ifdef("X"), Ifndef("X"), If("E1")},
     ab \in (Bodies(MaxBody) \X SmallBodies) \cup (SmallBodies \X Bodies(MaxBody))}

ElifMains ==
  {pre \o <<If(e[1])>> \o abc[1] \o <<Elif(e[2])>> \o abc[2] \o <<Else>>
       \o abc[3] \o <<Endif>> :
     pre \in {<<>>, <<Define("X")>>},
     e \in {"E1", "defined(X)"} \X {"E2", "defined(X)", "defined(Y)"},
     abc \in SmallBodies \X SmallBodies \X SmallBodies}

\* pairs of blocks written inside the two branches of another block
InnerPairs ==
  {<<<<If("E2"), Endif>>, <<Ifdef("X"), Endif>>>>,
   <<<<Ifdef("X"), Endif>>, <<If("E2"), Endif>>>>,
   <<<<Ifndef("Y"), Define("Y"), Endif>>,
     <<If("E2"), Define("Y"), Else, Define("Y"), Endif>>>>,
   <<<<If("E2"), Define("Y"), Else, Define("Y"), Endif>>,
     <<If("E2"), Define("Y"), Endif>>>>,
   <<<<If("E2"), Define("Y"), Endif>>, <<Ifndef("Y"), Define("Y"), Endif>>>>}

Tails == {<<>>, <<Ifdef("Y"), Code, Endif>>}

\* top-level files with a block in each branch of a block
NestedMains ==
  {pre \o <<open>> \o in[1] \o t \o <<Else>> \o in[2] \o <<Endif>> \o t :
     pre \in {<<>>, <<Define("X")>>},
     open \in {If("E1"), Ifdef("X")},
     in \in InnerPairs,
     t \in Tails}

PlainHeaders == <<<<Code>>, <<Define("X"), Code>>>>

HeaderPairs ==
  { PlainHeaders,
    <<<<Code, Include("b.h", TRUE)>>, <<Code, Include("a.h", TRUE)>>>>,
    <<<<Pragma("once"), Code>>, <<Pragma("once"), Include("a.h", TRUE), Code>>>>,
    <<<<Endif>>, <<Code, Else>>>>,
    <<<<Ifndef("X"), Define("X"), Code, Endif>>,
      <<Include("a.h", TRUE), Include("a.h", TRUE)>>>>,
    <<<<Pragma("once"), Pragma("once"), Code>>,
      <<If("E1"), Pragma("once"), Code, Elif("E2"), Code, Endif>>>>,
    <<<<Pragma("once"), Include("b.h", TRUE), Code>>,
      <<Pragma("once"), Include("a.h", TRUE), Code>>>>,
    <<<<Define("X"), Undef("X")>>,
      <<Include("a.h", TRUE), Ifndef("X"), Code, Endif>>>>,
    <<<<Ifndef("G"), Define("G"), Define("X"), Endif>>,
      <<Include("a.h", TRUE), Include("a.h", TRUE)>>>> }

\* a "#pragma once" header reached through another header, from inside and
\* from outside a block of the top-level file
ChainHeaders == <<<<Pragma("once"), Code>>, <<Include("a.h", TRUE), Code>>>>

ChainMains ==
  {<<open, Include(h[1], TRUE), Endif, Include(h[2], TRUE), Code>> :
     open \in {If("E1"), Ifdef("X")}, h \in {"a.h", "b.h"} \X {"a.h", "b.h"}}

\* the files on disk: the top-level file m, the headers a.h and b.h, and
\* two one-line headers
FS(m, h) ==
  [p \in Paths |-> CASE p = "main" -> m
                     [] p = "a.h" -> h[1]
                     [] p = "b.h" -> h[2]
                     [] OTHER -> <<Code>>]

\* the runs: a file system and the --exclude argument
Inputs ==
  ({FS(m, PlainHeaders) :
      m \in FreeMains \cup CondMains \cup ElifMains \cup NestedMains}
     \X {Pattern})
  \cup ({FS(m, h) : m \in HeaderMains, h \in HeaderPairs} \X {Pattern})
  \cup ({FS(m, ChainHeaders) : m \in ChainMains} \X {Pattern})
  \cup ({FS(m, PlainHeaders) : m \in IncludeMains} \X {NoPattern})

\* ------------------------------------------------------------------- state
Unbound == "unbound"

Frame(path, at) ==
  [path |-> path, at |-> at, pos |-> 1, pending |-> <<>>, tifblocks |-> <<>>,
   emulation |-> FALSE, ended |-> FALSE, determined |-> Unbound]

\* the files of these runs are given as logical lines: no text is scanned
NoReader == [lines |-> <<>>]

Init ==
  /\ \E in \in Inputs : files = in[1] /\ exclude_pattern = in[2]
  /\ stack = <<Frame("main", <<>>)>>
  /\ heap = <<EmptyContext>>
  /\ context = 1
  /\ ifblocks = <<>>
  /\ in_unreachable_block = FALSE
  /\ outfile = <<>>
  /\ status = "running"
  /\ resolved = <<>>
  /\ opened = <<"main">>
  /\ trace = <<>>
  /\ source = <<>>
  /\ reader = NoReader

Running == status = "running" /\ stack # <<>>
Top == stack[Len(stack)]
HasLine == Running /\ Top.pending # <<>>
Item == Top.pending[1]

\* the top frame with the head of its pending lines consumed
Consume(determined) ==
  [stack EXCEPT ![Len(stack)] =
     [@ EXCEPT !.pending = Tail(@), !.determined = determined]]

Out(item) ==
  [line |-> item.line, synth |-> item.synth, file |-> Top.path,
   at |-> Append(Top.at, item.idx)]

\* history: what expand did with a line of the translator's stream; reach is
\* ~in_unreachable_block after the conditional handling, dec the outcome of
\* an if-like line, ctx the active context after the line
Ev(item, reach, dec, act) ==
  [line |-> item.line, synth |-> item.synth, file |-> Top.path,
   at |-> Append(Top.at, item.idx), reach |-> reach, dec |-> dec, act |-> act,
   ctx |-> heap'[context']]

\* the tail of the loop body for a line with no effect of its own
Emit(item, unreachable, no_output, dec) ==
  IF writes(unreachable, no_output)
  THEN /\ outfile' = Append(outfile, Out(item))
       /\ trace' = Append(trace, Ev(item, ~unreachable, dec, "write"))
  ELSE /\ outfile' = outfile
       /\ trace' = Append(trace, Ev(item, ~unreachable, dec,
                                    IF unreachable THEN "drop" ELSE "silent"))

\* ----------------------------------------------------------------- actions
\* CppDirectiveTranslator.__call__: the loop body for the next source line
TranslatorNext ==
  /\ Running /\ Top.pending = <<>> /\ ~Top.ended
  /\ Top.pos <= Len(files[Top.path])
  /\ LET r == translate(files[Top.path][Top.pos], Top.pos, Top.tifblocks,
                        Top.emulation, Top.path)
     IN /\ stack' = [stack EXCEPT ![Len(stack)] =
                       [@ EXCEPT !.pos = @ + 1,
                                 !.pending = IF r.err THEN <<>> ELSE r.out,
                                 !.tifblocks = r.tifblocks,
                                 !.emulation = r.emulation]]
        /\ status' = IF r.err THEN "ValueError" ELSE status
  /\ UNCHANGED <<source, reader, files, exclude_pattern, heap, context, ifblocks,
                 in_unreachable_block, outfile, resolved, opened, trace>>

\* CppDirectiveTranslator.__call__: the source is exhausted
TranslatorEnd ==
  /\ Running /\ Top.pending = <<>> /\ ~Top.ended
  /\ Top.pos > Len(files[Top.path])
  /\ stack' = [stack EXCEPT ![Len(stack)] =
                 [@ EXCEPT !.ended = TRUE,
                           !.pending = IF Top.emulation
                                       THEN <<directive_line(Endif, Top.pos)>>
                                       ELSE <<>>]]
  /\ UNCHANGED <<source, reader, files, exclude_pattern, heap, context, ifblocks,
                 in_unreachable_block, outfile, status, resolved, opened, trace>>

\* expand: the loop body for #if / #ifdef / #ifndef
ExpandIfLike ==
  /\ HasLine /\ Item.line.k \in IfLike
  /\ UNCHANGED <<source, reader, files, exclude_pattern, status, resolved, opened>>
  /\ LET d == Item.line
         det == is_determined(d, heap[context])
     IN IF in_unreachable_block
        THEN /\ ifblocks' = Append(ifblocks, IfBlock(d))
             /\ stack' = Consume(Top.determined)
             /\ UNCHANGED <<heap, context, in_unreachable_block, outfile>>
             /\ trace' = Append(trace, Ev(Item, FALSE, "placeholder", "drop"))
        ELSE IF det # None
        THEN /\ ifblocks' = Append(ifblocks, DeterminedIfBlock(d, det))
             /\ in_unreachable_block' = if_unreachable(det)
             /\ stack' = Consume(det)
             /\ UNCHANGED <<heap, context>>
             /\ Emit(Item, in_unreachable_block', TRUE, det)
        ELSE /\ heap' = Append([heap EXCEPT ![context] = true_fork(d, @)],
                               false_fork(d, heap[context]))
             /\ ifblocks' = Append(ifblocks,
                                   UndeterminedIfBlock(d, Len(heap) + 1, context))
             /\ context' = context
             /\ stack' = Consume(det)
             /\ UNCHANGED in_unreachable_block
             /\ Emit(Item, FALSE, FALSE, "undetermined")

\* expand: the loop body for #else
ExpandElse ==
  /\ HasLine /\ Item.line.k = "else"
  /\ ifblocks # <<>>
  /\ UNCHANGED <<source, reader, files, exclude_pattern, heap, resolved, opened>>
  /\ LET ifblock == Last(ifblocks)
     IN /\ ifblocks' = [ifblocks EXCEPT ![Len(ifblocks)].current = FALSE]
        /\ stack' = Consume(Top.determined)
        /\ IF ifblock.cls = "DeterminedIfBlock" /\ Top.determined = Unbound
           THEN /\ status' = "UnboundLocalError"
                /\ UNCHANGED <<context, in_unreachable_block, outfile, trace>>
           ELSE /\ context' = IF ifblock.cls = "UndeterminedIfBlock"
                              THEN ifblock.contexts.f ELSE context
                /\ in_unreachable_block' =
                     IF ifblock.cls = "DeterminedIfBlock"
                     THEN else_unreachable(ifblock, Top.determined)
                     ELSE in_unreachable_block
                /\ UNCHANGED status
                /\ Emit(Item, in_unreachable_block', ifblock.no_output, "")

\* expand: the loop body for #endif
ExpandEndif ==
  /\ HasLine /\ Item.line.k = "endif"
  /\ ifblocks # <<>>
  /\ UNCHANGED <<source, reader, files, exclude_pattern, status, resolved, opened>>
  /\ LET ifblock == Last(ifblocks)
     IN /\ IF ifblock.cls = "UndeterminedIfBlock"
           THEN /\ heap' = Append(heap, endif_context(ifblock, heap))
                /\ context' = Len(heap) + 1
                /\ ifblocks' = propagate(Front(ifblocks), context')
                /\ UNCHANGED in_unreachable_block
           ELSE /\ ifblocks' = Front(ifblocks)
                /\ in_unreachable_block' =
                     IF ifblock.cls = "DeterminedIfBlock"
                     THEN FALSE ELSE in_unreachable_block
                /\ UNCHANGED <<heap, context>>
        /\ stack' = Consume(Top.determined)
        /\ Emit(Item, in_unreachable_block', ifblock.no_output, "")

\* expand: the loop body for #define / #undef
ExpandDefine ==
  /\ HasLine /\ Item.line.k \in {"define", "undef"}
  /\ UNCHANGED <<source, reader, files, exclude_pattern, context, ifblocks,
                 in_unreachable_block, status, resolved, opened>>
  /\ heap' = IF in_unreachable_block THEN heap
             ELSE IF Item.line.k = "define"
             THEN [heap EXCEPT ![context] = define(@, Item.line.a)]
             ELSE [heap EXCEPT ![context] = undef(@, Item.line.a)]
  /\ stack' = Consume(Top.determined)
  /\ Emit(Item, in_unreachable_block, FALSE, "")

\* expand: the loop body for #include
ExpandInclude ==
  /\ HasLine /\ Item.line.k = "include"
  /\ UNCHANGED <<source, reader, files, exclude_pattern, heap, context, ifblocks,
                 in_unreachable_block>>
  /\ LET d == Item.line
         try == ~in_unreachable_block /\ tries_resolve(exclude_pattern, d.a)
         target == IF try
                   THEN resolve_include_path(d.a, IF d.q THEN Top.path ELSE None)
                   ELSE None
         overflow == target # None /\ Len(stack) >= RecursionLimit
     IN /\ resolved' = IF try THEN Append(resolved, d.a) ELSE resolved
        /\ status' = IF overflow THEN "RecursionError" ELSE status
        /\ stack' = IF target # None /\ ~overflow
                    THEN Append(Consume(Top.determined),
                                Frame(target, Append(Top.at, Item.idx)))
                    ELSE Consume(Top.determined)
        /\ opened' = IF target # None /\ ~overflow
                     THEN Append(opened, target) ELSE opened
        /\ IF falls_through(target)
           THEN Emit(Item, in_unreachable_block, FALSE, "")
           ELSE /\ outfile' = outfile
                /\ trace' = Append(trace, Ev(Item, TRUE, "",
                                   IF overflow THEN "overflow" ELSE "expand"))

\* expand: the loop body for plain code and the directives expand ignores
ExpandPlain ==
  /\ HasLine /\ Item.line.k \in {"none", "pragma", "elif"}
  /\ UNCHANGED <<source, reader, files, exclude_pattern, heap, context, ifblocks,
                 in_unreachable_block, status, resolved, opened>>
  /\ stack' = Consume(Top.determined)
  /\ Emit(Item, in_unreachable_block, FALSE, "")

\* expand returns: the translator's stream is exhausted
ExpandReturn ==
  /\ Running /\ Top.pending = <<>> /\ Top.ended
  /\ stack' = Front(stack)
  /\ status' = IF Len(stack) = 1 THEN "done" ELSE status
  /\ UNCHANGED <<source, reader, files, exclude_pattern, heap, context, ifblocks,
                 in_unreachable_block, outfile, resolved, opened, trace>>

Next ==
  \/ TranslatorNext
  \/ TranslatorEnd
  \/ ExpandIfLike
  \/ ExpandElse
  \/ ExpandEndif
  \/ ExpandDefine
  \/ ExpandInclude
  \/ ExpandPlain
  \/ ExpandReturn

Spec == Init /\ [][Next]_vars

\* ------------------------------------------------------- reading the history
Events == {trace[i] : i \in DOMAIN trace}
Written == {outfile[i] : i \in DOMAIN outfile}

IsPrefix(p, q) == Len(p) <= Len(q) /\ SubSeq(q, 1, Len(p)) = p

\* lexicographic order of two positions (sequences of line numbers, one per
\* nested expand call)
LexLeq(p, q) ==
  \/ IsPrefix(p, q)
  \/ \E i \in 1..Len(p) :
       /\ i <= Len(q)
       /\ SubSeq(p, 1, i - 1) = SubSeq(q, 1, i - 1)
       /\ p[i] < q[i]

\* x was produced by the expand call that produced t, from one of the source
\* lines I of that call's file or from a file included by one of them
InLines(t, x, I) ==
  /\ Len(x.at) >= Len(t.at)
  /\ SubSeq(x.at, 1, Len(t.at) - 1) = Front(t.at)
  /\ x.at[Len(t.at)] \in I

\* x was produced from one of the lines I themselves
AtLines(t, x, I) == Len(x.at) = Len(t.at) /\ InLines(t, x, I)

\* the source block opened by the line of event t
OpenLine(t) == Last(t.at)
EndifLine(t) == MatchEndif(files[t.file], OpenLine(t))
ElseLines(t) == OwnElses(files[t.file], OpenLine(t))
\* the #else of the block, or its #endif when it has none
ElseLine(t) ==
  IF ElseLines(t) = {} THEN EndifLine(t) ELSE CHOOSE e \in ElseLines(t) : TRUE
TrueBranch(t) == (OpenLine(t) + 1)..(ElseLine(t) - 1)
ElseBranch(t) == (ElseLine(t) + 1)..(EndifLine(t) - 1)
\* lines of the block's own nesting level inside the range I
Direct(t, I) ==
  {i \in I : DepthBefore(files[t.file], i) = DepthBefore(files[t.file], OpenLine(t)) + 1}

\* t opens a block "#if* / A / [#else / B] / #endif" written in one file
OpensSimpleBlock(t) ==
  /\ t.line.k \in IfLike
  /\ files[t.file][OpenLine(t)].k \in IfLike
  /\ EndifLine(t) # 0
  /\ \A e \in ElseLines(t) : files[t.file][e].k = "else"
  /\ Cardinality(ElseLines(t)) <= 1

\* ------------------------------------------------------------------ claims
\* C1: a file reached while it is already being expanded higher up the include
\* chain is skipped without recursion and without an error, so no file is
\* open twice on the chain of expand calls and the expansion of a cyclic
\* include graph does not end in an error.
C1_CycleSkipped ==
  /\ \A i, j \in 1..Len(stack) : i < j => stack[i].path # stack[j].path
  /\ status # "RecursionError"

\* C2: a block "#if* X / A / #else / B / #endif" whose condition is decided
\* when it is reached in reachable code writes none of its own #if*, #else,
\* #endif lines and no line of the branch that is not selected, whatever the
\* bodies A and B contain; the lines of the selected branch are reachable.
C2_DeterminedElision ==
  \A t \in Events :
    t.dec \in {"True", "False"} /\ OpensSimpleBlock(t) =>
      LET own == {OpenLine(t), EndifLine(t)} \cup ElseLines(t)
          dead == IF t.dec = "True" THEN ElseBranch(t) ELSE TrueBranch(t)
          live == IF t.dec = "True" THEN TrueBranch(t) ELSE ElseBranch(t)
      IN /\ \A x \in Written : ~AtLines(t, x, own) /\ ~InLines(t, x, dead)
         /\ \A u \in Events :
              AtLines(t, u, Direct(t, live)) /\ u.line.k \in Unconditional
                => u.reach

\* C3: a block whose condition is undecided when it is reached in reachable
\* code is written whole: its opening directive, the plain lines of its true
\* branch, its #else, the plain lines of its else branch and its #endif, in
\* source order; no line of either branch is dropped as unreachable.
C3_UndeterminedPreserved ==
  \A t \in Events :
    t.dec = "undetermined" /\ OpensSimpleBlock(t) =>
      LET ends == ElseLines(t) \cup {EndifLine(t)}
          body == Direct(t, TrueBranch(t) \cup ElseBranch(t))
          inside == {i \in DOMAIN outfile :
                       InLines(t, outfile[i], OpenLine(t)..EndifLine(t))}
      IN /\ \E x \in Written : AtLines(t, x, {OpenLine(t)}) /\ x.line = t.line
         /\ \A u \in Events :
              AtLines(t, u, ends) => u.act = "write"
         /\ \A u \in Events :
              /\ u.line.k \in Unconditional
              /\ AtLines(t, u, body)
              => u.reach /\ u.act \in {"write", "expand", "overflow"}
         /\ \A i, j \in inside :
              i < j => LexLeq(outfile[i].at, outfile[j].at)

\* C3 witness: a finished run wrote an undecided block with an #else and a
\* plain line in each branch
C3_Witness ==
  /\ status = "done"
  /\ \E t \in Events :
       /\ t.dec = "undetermined" /\ OpensSimpleBlock(t) /\ ElseLines(t) # {}
       /\ \E x, y, z \in Written :
            /\ AtLines(t, x, Direct(t, TrueBranch(t))) /\ x.line = Code
            /\ AtLines(t, y, Direct(t, ElseBranch(t))) /\ y.line = Code
            /\ AtLines(t, z, {EndifLine(t)}) /\ z.line = Endif

\* the calls of expand so far: the file, the position of the #include that
\* made the call, and the active context when the call was made
Calls ==
  {[at |-> <<>>, file |-> "main", ctx |-> EmptyContext]}
  \cup {[at |-> t.at,
         file |-> resolve_include_path(t.line.a, IF t.line.q THEN t.file ELSE None),
         ctx |-> t.ctx] : t \in {u \in Events : u.act = "expand"}}

Returned(c) ==
  /\ status \in {"running", "done"}
  /\ \A i \in 1..Len(stack) : stack[i].at # c.at

Text(x) == [line |-> x.line, synth |-> x.synth]

\* what the call c has written from the lines of its own file, in order
Segment(c) ==
  LET own(x) == Len(x.at) = Len(c.at) + 1 /\ IsPrefix(c.at, x.at)
      seg == SelectSeq(outfile, own)
  IN [i \in 1..Len(seg) |-> Text(seg[i])]

Codes(n) == [i \in 1..n |-> [line |-> Code, synth |-> FALSE]]

\* a header whose only directive is a leading "#pragma once"
OnceHeader(f) ==
  /\ Len(files[f]) >= 2
  /\ files[f][1] = Pragma("once")
  /\ \A i \in 2..Len(files[f]) : files[f][i] = Code

GuardedText(f) ==
  <<[line |-> Ifndef(macro_name(f)), synth |-> TRUE],
    [line |-> Define(macro_name(f)), synth |-> TRUE]>>
  \o Codes(Len(files[f]) - 1)
  \o <<[line |-> Endif, synth |-> TRUE]>>

\* C4: expanding a header that is "#pragma once" followed by plain code while
\* its guard macro is unknown writes exactly "#ifndef <guard>", "#define
\* <guard>", the plain code and one closing "#endif" after the last line,
\* with <guard> a function of the header's path alone.
C4_PragmaOnceGuard ==
  \A c \in Calls :
    OnceHeader(c.file) /\ is_defined(c.ctx, macro_name(c.file)) = None =>
      /\ IsPrefix(Segment(c), GuardedText(c.file))
      /\ Returned(c) => Segment(c) = GuardedText(c.file)

\* C4 witness: an included "#pragma once" header has been expanded to its
\* guarded text and the run has finished
C4_Witness ==
  /\ status = "done"
  /\ \E c \in Calls :
       /\ c.at # <<>> /\ OnceHeader(c.file)
       /\ is_defined(c.ctx, macro_name(c.file)) = None
       /\ Segment(c) = GuardedText(c.file)

\* a file "#if E1 / code / #elif E2 / code / #else / code / #endif"
ElifChain(f) ==
  LET s == files[f]
      cond == {i \in 1..Len(s) : s[i] # Code}
  IN /\ Len(s) >= 4
     /\ s[1].k = "if" /\ s[Len(s)] = Endif
     /\ \E i, j \in 2..(Len(s) - 1) :
          i < j /\ s[i].k = "elif" /\ s[j] = Else /\ cond = {1, i, j, Len(s)}

\* the directive an #if / #elif expression is normalized to
Normalized(expr, synth) ==
  IF re_ifdef(expr) = NoMatch THEN [line |-> If(expr), synth |-> synth]
  ELSE [line |-> IF re_ifdef(expr).neg THEN Ifndef(re_ifdef(expr).id)
                 ELSE Ifdef(re_ifdef(expr).id),
        synth |-> TRUE]

ElifChainText(f) ==
  LET s == files[f]
      i == CHOOSE i \in 1..Len(s) : s[i].k = "elif"
      j == CHOOSE j \in 1..Len(s) : s[j] = Else
  IN <<Normalized(s[1].a, FALSE)>> \o Codes(i - 2)
     \o <<[line |-> Else, synth |-> TRUE], Normalized(s[i].a, TRUE)>>
     \o Codes(j - i - 1)
     \o <<[line |-> Else, synth |-> FALSE]>> \o Codes(Len(s) - j - 1)
     \o <<[line |-> Endif, synth |-> TRUE], [line |-> Endif, synth |-> FALSE]>>

\* C5: with both conditions undecided, "#if E1 / code1 / #elif E2 / code2 /
\* #else / code3 / #endif" is written as "#if E1 / code1 / #else / #if E2 /
\* code2 / #else / code3 / #endif / #endif": the three code blocks in source
\* order inside their guards, the source's own #endif exactly once, and one
\* synthesized #endif closing the #if made from the #elif.
C5_ElifChain ==
  \A c \in Calls :
    /\ ElifChain(c.file) /\ c.ctx = EmptyContext /\ Returned(c)
    /\ \A u \in Events :
         /\ Len(u.at) = Len(c.at) + 1 /\ IsPrefix(c.at, u.at)
         /\ u.line.k \in IfLike
         => u.dec = "undetermined"
    =>
      /\ Segment(c) = ElifChainText(c.file)
      /\ Cardinality({i \in DOMAIN Segment(c) :
                        Segment(c)[i] = [line |-> Endif, synth |-> FALSE]}) = 1

\* C5 witness: a finished run over an #elif chain with a line of code in each
\* of its three branches
C5_Witness ==
  /\ status = "done"
  /\ ElifChain("main") /\ Len(files["main"]) = 7
  /\ Segment([at |-> <<>>, file |-> "main", ctx |-> EmptyContext])
       = ElifChainText("main")

\* an #include that names an existing file: a quoted target beside the
\* including file, or a target in an include directory
Resolvable(d) ==
  d.k = "include" /\ ((d.q /\ d.a \in LocalPaths) \/ d.a \in IncludeDirPaths)

\* C6: every reachable, non-excluded #include of an existing file is expanded
\* where it stands, also when the same file was expanded before from another
\* inclusion point: its first plain line is written again.
C6_RepeatedInclusion ==
  \A t \in Events :
    t.reach /\ Resolvable(t.line) /\ ~exclude_matches(exclude_pattern, t.line.a)
    => /\ t.act \in {"expand", "overflow"}
       /\ /\ t.act = "expand"
          /\ files[t.line.a][1] = Code
          /\ \E u \in Events : u.at = Append(t.at, 1)
          => \E x \in Written :
               x.at = Append(t.at, 1) /\ x.file = t.line.a /\ x.line = Code

\* C6 witness: the unguarded header a.h was written twice, from two #include
\* lines of the top-level file
C6_Witness ==
  /\ status = "done"
  /\ files["a.h"] = <<Code>>
  /\ \E x, y \in Written :
       /\ x.file = "a.h" /\ y.file = "a.h"
       /\ Len(x.at) = 2 /\ Len(y.at) = 2 /\ x.at[1] < y.at[1]

\* C7: the output is in source order with an included file's expansion in the
\* place of its #include line: positions never decrease along the output,
\* the #include line of an expanded file is not written, every line written
\* from below an #include comes from the file it resolves to, source lines
\* are written verbatim and no reachable plain line is lost.
C7_IncludeSplice ==
  /\ \A i, j \in DOMAIN outfile :
       i < j => LexLeq(outfile[i].at, outfile[j].at)
  /\ \A t \in Events : t.act = "expand" => \A x \in Written : x.at # t.at
  /\ \A x \in Written :
       /\ ~x.synth => x.line = files[x.file][Last(x.at)]
       /\ Len(x.at) >= 2 =>
            \E t \in Events :
              /\ t.at = Front(x.at) /\ t.act = "expand"
              /\ Resolvable(t.line) /\ x.file = t.line.a
  /\ \A u \in Events :
       u.line = Code /\ u.reach =>
         \E i \in DOMAIN outfile : outfile[i].at = u.at /\ outfile[i].line = Code

\* C7 witness: a finished run wrote a line of the top-level file, then a line
\* of an included file, then a later line of the top-level file
C7_Witness ==
  /\ status = "done"
  /\ \E i, j, k \in DOMAIN outfile :
       /\ i < j /\ j < k
       /\ Len(outfile[i].at) = 1 /\ Len(outfile[k].at) = 1
       /\ Len(outfile[j].at) = 2
       /\ outfile[i].at[1] < outfile[j].at[1]
       /\ outfile[j].at[1] < outfile[k].at[1]
       /\ outfile[i].line = Code /\ outfile[k].line = Code

\* line i of s is an #elif, #else or #endif with no block of s open
Stray(s, i) == s[i].k \in {"elif", "else", "endif"} /\ DepthBefore(s, i) = 0

\* C8: once the translator of a file has read an #elif, #else or #endif with
\* no block of that same file open, the expansion has ended with an error:
\* the line is the last one read, it was not handed to expand, and every
\* including file still stands at its #include line.
C8_StructuralError ==
  \A n \in 1..Len(stack) :
    \A i \in 1..(stack[n].pos - 1) :
      i <= Len(files[stack[n].path]) /\ Stray(files[stack[n].path], i) =>
        /\ status = "ValueError"
        /\ n = Len(stack) /\ i = stack[n].pos - 1 /\ stack[n].pending = <<>>
        /\ \A e \in Events : e.at # Append(stack[n].at, i)
        /\ \A m \in 1..(n - 1) :
             /\ stack[m].pending = <<>>
             /\ stack[m + 1].at = Append(stack[m].at, stack[m].pos - 1)

\* C8 witness: an #endif in an included header ended the run with an error
\* while a block of the including file was open
C8_Witness ==
  /\ status = "ValueError"
  /\ Len(stack) = 2 /\ ifblocks # <<>>
  /\ files[Top.path][Top.pos - 1] = Endif

\* the translator's output stream so far: what expand has taken from it and
\* what is still pending in each open translator
Stream ==
  {[file |-> e.file, idx |-> Last(e.at), line |-> e.line, synth |-> e.synth] :
     e \in Events}
  \cup UNION {{[file |-> stack[n].path, idx |-> stack[n].pending[i].idx,
                line |-> stack[n].pending[i].line,
                synth |-> stack[n].pending[i].synth] :
                 i \in DOMAIN stack[n].pending} : n \in DOMAIN stack}

\* line i of s is the first "#pragma once" of s outside every block
FirstTopOnce(s, i) ==
  /\ i <= Len(s) /\ s[i] = Pragma("once") /\ DepthBefore(s, i) = 0
  /\ \A j \in 1..(i - 1) : ~(s[j] = Pragma("once") /\ DepthBefore(s, j) = 0)

\* C9 as claimed: the translator's output never holds an Elif nor a
\* Pragma(once), for any input file.
C9_NoElifNoPragmaOnce ==
  \A e \in Stream : e.line.k # "elif" /\ e.line # Pragma("once")

\* C9 amended: the translator's output never holds an Elif: an #elif becomes
\* #else followed by #if; the first top-level "#pragma once" of a file becomes
\* the #ifndef / #define guard pair and nothing else does; a "#pragma once"
\* inside an open block, or a later top-level one, is passed on unchanged.
C9_Normalized ==
  /\ \A e \in Stream :
       LET s == files[e.file] IN
       /\ e.line.k # "elif"
       /\ e.idx <= Len(s) /\ s[e.idx].k = "elif" =>
            e.synth /\ e.line \in {Else, Normalized(s[e.idx].a, TRUE).line}
       /\ FirstTopOnce(s, e.idx) =>
            /\ e.synth
            /\ e.line \in {Ifndef(macro_name(e.file)), Define(macro_name(e.file))}
       /\ e.line.a = macro_name(e.file) => FirstTopOnce(s, e.idx)
       /\ e.line = Pragma("once") =>
            ~e.synth /\ s[e.idx] = Pragma("once") /\ ~FirstTopOnce(s, e.idx)
       /\ e.idx <= Len(s) /\ s[e.idx] = Pragma("once") /\ ~FirstTopOnce(s, e.idx)
            => e.line = Pragma("once")
  /\ \A n \in DOMAIN stack :
       LET f == stack[n] IN
       f.pos > 1 /\ f.pos - 1 <= Len(files[f.path])
       /\ files[f.path][f.pos - 1].k = "elif" /\ Len(f.pending) >= 2 =>
         /\ Len(f.pending) = 2
         /\ f.pending[1].line = Else /\ f.pending[2].line.k \in IfLike

\* C9 witness: a finished run in which the translator passed a "#pragma once"
\* on to expand, which wrote it, and rewrote an #elif
C9_Witness ==
  /\ status = "done"
  /\ \E x \in Written : x.line = Pragma("once")
  /\ \E e \in Events :
       /\ Last(e.at) <= Len(files[e.file])
       /\ files[e.file][Last(e.at)].k = "elif"
       /\ e.line.k \in IfLike

\* C10: a reachable #include whose target, as written, matches the configured
\* exclusion pattern is written verbatim; no excluded target is ever handed
\* to include resolution and no excluded file is opened, whether or not the
\* target exists.
C10_ExclusionPassthrough ==
  /\ \A t \in Events :
       t.line.k = "include" /\ t.reach
       /\ exclude_pattern # NoPattern /\ search(exclude_pattern, t.line.a)
       => /\ t.act = "write"
          /\ \E x \in Written : x.at = t.at /\ x.line = t.line /\ ~x.synth
  /\ \A i \in DOMAIN resolved :
       ~(exclude_pattern # NoPattern /\ search(exclude_pattern, resolved[i]))
  /\ \A i \in DOMAIN opened :
       ~(exclude_pattern # NoPattern /\ search(exclude_pattern, opened[i]))

\* C10 witness: a finished run wrote an excluded #include of a file that does
\* not exist and an excluded #include of one that does
C10_Witness ==
  /\ status = "done" /\ exclude_pattern = Pattern
  /\ \E x, y \in Written :
       x.line = Include("ext.h", TRUE) /\ y.line = Include("e.h", TRUE)

\* the loop body is about to handle a reachable, non-excluded #include that
\* names no existing file
AtUnresolvable ==
  /\ HasLine /\ Item.line.k = "include" /\ ~Resolvable(Item.line)
  /\ ~in_unreachable_block
  /\ ~(exclude_pattern # NoPattern /\ search(exclude_pattern, Item.line.a))

\* C11: a reachable, non-excluded #include whose target resolves to no
\* existing file is written verbatim as the next output line; no error is
\* raised, no file is opened, the macro context, the block stack and the
\* reachability flag are unchanged, and the loop goes on to the next line of
\* the same file.
C11_UnresolvedSoftFailure ==
  [][AtUnresolvable =>
       /\ outfile' = Append(outfile, [line |-> Item.line, synth |-> FALSE,
                                      file |-> Top.path,
                                      at |-> Append(Top.at, Item.idx)])
       /\ status' = status /\ opened' = opened
       /\ heap' = heap /\ context' = context /\ ifblocks' = ifblocks
       /\ in_unreachable_block' = in_unreachable_block
       /\ Len(stack') = Len(stack)
       /\ stack'[Len(stack)].pending = Tail(Top.pending)
       /\ stack'[Len(stack)].pos = Top.pos]_vars

\* C11 witness: a finished run wrote a quoted #include of a missing file and
\* an angle #include of a file that only exists beside the source, and a later
\* line of the same file after one of them
C11_Witness ==
  /\ status = "done"
  /\ \E x, y \in Written :
       /\ x.line = Include("missing.h", TRUE) /\ y.line = Include("a.h", FALSE)
  /\ \E i, j \in DOMAIN outfile :
       /\ i < j /\ outfile[i].line.k = "include" /\ ~Resolvable(outfile[i].line)
       /\ outfile[i].file = outfile[j].file

\* ------------------------------------------------------------ CppLineReader
\* the text of a source file is a sequence of characters; iterating the open
\* file yields its physical lines, each with its line break
MaxChars == 4

DQ == "\""
SQ == "'"
BS == "\\"
NL == "\n"
Chars == {"a", " ", NL, DQ, SQ, "/", "*", BS}
\* the characters matched by \s
Whitespace == {" ", NL}

Sources == SeqsUpTo(Chars, MaxChars)

\* index of the first line break of s, or Len(s) when it has none
FirstBreak(s) ==
  LET b == {i \in 1..Len(s) : s[i] = NL}
  IN IF b = {} THEN Len(s) ELSE CHOOSE i \in b : \A j \in b : i <= j

\* "for line in self.source": the physical lines of the text
RECURSIVE PhysicalLines(_)
PhysicalLines(s) ==
  IF s = <<>> THEN <<>>
  ELSE <<SubSeq(s, 1, FirstBreak(s))>>
       \o PhysicalLines(SubSeq(s, FirstBreak(s) + 1, Len(s)))

\* line[p:p+2] == c1 + c2
pair(line, p, c1, c2) ==
  p + 1 <= Len(line) /\ line[p] = c1 /\ line[p + 1] = c2

\* _re_linebreak.match(line[p:]): a backslash and then only whitespace
re_linebreak(line, p) ==
  line[p] = BS /\ \A i \in (p + 1)..Len(line) : line[i] \in Whitespace

\* the locals of CppLineReader.__call__: lines is what the source has not
\* yet yielded before the current line (its head is the current line), p the
\* loop index, broke whether the loop over p was left by break; ends and
\* yielded record the physical lines finished and the LineInfo objects
\* yielded so far
CppLineReader(src) ==
  [lines |-> PhysicalLines(src), p |-> 1, skipping |-> 0,
   continue_to_next_line |-> FALSE, broke |-> FALSE,
   in_string |-> FALSE, in_block_comment |-> FALSE,
   raw |-> <<>>, code |-> <<>>, ends |-> <<>>, yielded |-> <<>>]

\* mutant: an escaped quote is not recognised inside a string
escaped_quote_never(line, p) == FALSE

\* line[p:p+2] == r'\"' inside a string
escaped_quote(line, p) == pair(line, p, BS, DQ)

\* one iteration of "for p in range(len(line))"
scan(r) ==
  LET line == r.lines[1]
      c == line[r.p]
      next == [r EXCEPT !.p = @ + 1]
  IN IF r.skipping > 0 THEN [next EXCEPT !.skipping = @ - 1]
     ELSE IF r.in_string
     THEN IF escaped_quote(line, r.p)
          THEN [next EXCEPT !.skipping = 1, !.code = @ \o <<BS, DQ>>]
          ELSE IF c = DQ
          THEN [next EXCEPT !.in_string = FALSE, !.code = Append(@, c)]
          ELSE [next EXCEPT !.code = Append(@, c)]
     ELSE IF r.in_block_comment
     THEN IF pair(line, r.p, "*", "/")
          THEN [next EXCEPT !.skipping = 1, !.in_block_comment = FALSE]
          ELSE next
     ELSE IF c = DQ
          THEN [next EXCEPT !.in_string = TRUE, !.code = Append(@, c)]
          ELSE IF pair(line, r.p, "/", "*")
          THEN [next EXCEPT !.skipping = 1, !.in_block_comment = TRUE]
          ELSE IF pair(line, r.p, "/", "/")
          THEN [r EXCEPT !.broke = TRUE]
          ELSE IF re_linebreak(line, r.p)
          THEN [r EXCEPT !.continue_to_next_line = TRUE, !.broke = TRUE]
          ELSE IF c # NL THEN [next EXCEPT !.code = Append(@, c)]
          ELSE next

\* CppDirective._re_directive needs a "#" as the first character that is not
\* whitespace; the texts scanned here hold none, so parse returns None
parse(code) ==
  LET ink == {i \in 1..Len(code) : code[i] \notin Whitespace}
  IN IF ink # {} /\ code[CHOOSE i \in ink : \A j \in ink : i <= j] = "#"
     THEN "directive" ELSE None

\* mutant: expand writes the code text of the line, not its raw text
deliver_code(out, lineinfo) ==
  IF parse(lineinfo.code) = None THEN Append(out, lineinfo.code) ELSE out

\* what the consumers do with a yielded LineInfo that is no directive: the
\* translator passes it on and expand writes its raw text
deliver(out, lineinfo) ==
  IF parse(lineinfo.code) = None THEN Append(out, lineinfo.raw) ELSE out

ReaderInit ==
  /\ source \in Sources
  /\ reader = CppLineReader(source)
  /\ files = <<>>
  /\ exclude_pattern = NoPattern
  /\ stack = <<>>
  /\ heap = <<EmptyContext>>
  /\ context = 1
  /\ ifblocks = <<>>
  /\ in_unreachable_block = FALSE
  /\ outfile = <<>>
  /\ status = "running"
  /\ resolved = <<>>
  /\ opened = <<"main">>
  /\ trace = <<>>

Scanning == status = "running" /\ reader.lines # <<>>
LineDone == reader.broke \/ reader.p > Len(reader.lines[1])

\* CppLineReader.__call__: one character of the current physical line
ReaderScan ==
  /\ Scanning /\ ~LineDone
  /\ reader' = scan(reader)
  /\ UNCHANGED <<source, files, exclude_pattern, stack, heap, context, ifblocks,
                 in_unreachable_block, outfile, status, resolved, opened, trace>>

\* CppLineReader.__call__: the end of a physical line; the logical line is
\* yielded and written unless a block comment or a continuation is open
ReaderEndOfLine ==
  /\ Scanning /\ LineDone
  /\ LET line == reader.lines[1]
         lineinfo == [raw |-> reader.raw \o line, code |-> reader.code]
         emit == ~reader.in_block_comment /\ ~reader.continue_to_next_line
         end == [line |-> line, in_string |-> reader.in_string,
                 in_block_comment |-> reader.in_block_comment,
                 continue_to_next_line |-> reader.continue_to_next_line,
                 broke |-> reader.broke, p |-> reader.p, emitted |-> emit]
     IN /\ reader' = [reader EXCEPT
                        !.lines = Tail(@), !.p = 1, !.skipping = 0,
                        !.continue_to_next_line = FALSE, !.broke = FALSE,
                        !.raw = IF emit THEN <<>> ELSE lineinfo.raw,
                        !.code = IF emit THEN <<>> ELSE lineinfo.code,
                        !.ends = Append(@, end),
                        !.yielded = IF emit THEN Append(@, lineinfo) ELSE @]
        /\ outfile' = IF emit THEN deliver(outfile, lineinfo) ELSE outfile
  /\ UNCHANGED <<source, files, exclude_pattern, stack, heap, context, ifblocks,
                 in_unreachable_block, status, resolved, opened, trace>>

\* CppLineReader.__call__: the source is exhausted; what is left of an
\* unfinished logical line is yielded, and expand returns
ReaderEndOfSource ==
  /\ status = "running" /\ reader.lines = <<>>
  /\ LET lineinfo == [raw |-> reader.raw, code |-> reader.code]
         emit == reader.raw # <<>>
     IN /\ reader' = [reader EXCEPT
                        !.raw = <<>>, !.code = <<>>,
                        !.yielded = IF emit THEN Append(@, lineinfo) ELSE @]
        /\ outfile' = IF emit THEN deliver(outfile, lineinfo) ELSE outfile
  /\ status' = "done"
  /\ UNCHANGED <<source, files, exclude_pattern, stack, heap, context, ifblocks,
                 in_unreachable_block, resolved, opened, trace>>

ReaderNext ==
  \/ ReaderScan
  \/ ReaderEndOfLine
  \/ ReaderEndOfSource

ReaderSpec == ReaderInit /\ [][ReaderNext]_vars

\* the concatenation of a sequence of texts
RECURSIVE Concat(_)
Concat(ss) == IF ss = <<>> THEN <<>> ELSE ss[1] \o Concat(Tail(ss))

\* the part of the source the reader has finished: the physical lines whose
\* end it has passed
Finished == Concat([i \in DOMAIN reader.ends |-> reader.ends[i].line])

\* C12: on a text none of whose logical lines is a directive, what has been
\* written is always the text of the physical lines in order, up to the last
\* one that ended a logical line, each physical line in exactly one logical
\* line; when the run has finished the output is the whole input, unchanged.
C12_IdentityOnPlainText ==
  (\A i \in DOMAIN reader.yielded : parse(reader.yielded[i].code) = None) =>
    /\ Concat(outfile) \o reader.raw = Finished
    /\ IsPrefix(Finished, source)
    /\ outfile = [i \in DOMAIN reader.yielded |-> reader.yielded[i].raw]
    /\ status = "done" => Concat(outfile) = source

\* C12 witness: a finished run over a text of three physical lines in two
\* logical lines, the first with a code text that differs from its raw text
C12_Witness ==
  /\ status = "done"
  /\ Len(outfile) = 2 /\ Len(reader.ends) = 3
  /\ Concat(outfile) = source
  /\ reader.yielded[1].code # reader.yielded[1].raw

\* a header made of plain code and #define / #undef lines only
Unconditionally(f) ==
  \A i \in 1..Len(files[f]) : files[f][i].k \in {"none", "define", "undef"}

\* the last #define / #undef of name n in file f decides n: "True" when it
\* is a #define, "False" when it is an #undef, None when f has neither
LastOp(f, n) ==
  LET ops == {i \in 1..Len(files[f]) :
                files[f][i].k \in {"define", "undef"} /\ files[f][i].a = n}
      last == CHOOSE i \in ops : \A j \in ops : j <= i
  IN IF ops = {} THEN None
     ELSE IF files[f][last].k = "define" THEN "True" ELSE "False"

\* trace[k] is the first line that is not plain code handled by the call
\* that made the #include trace[j], after the included file was expanded
NextAfterInclude(j, k) ==
  /\ j < k
  /\ trace[j].act = "expand"
  /\ Len(trace[k].at) = Len(trace[j].at)
  /\ Front(trace[k].at) = Front(trace[j].at)
  /\ trace[k].line # Code
  /\ \A m \in (j + 1)..(k - 1) :
       \/ /\ IsPrefix(trace[j].at, trace[m].at)
          /\ Len(trace[m].at) = Len(trace[j].at) + 1
       \/ /\ trace[m].at # trace[k].at
          /\ Len(trace[m].at) = Len(trace[j].at) /\ trace[m].line = Code

\* C13: after a reachable #include of a header of unconditional code that
\* defines or undefines X, the next #ifdef X / #ifndef X of the including file
\* is decided, with the outcome given by the header's last #define / #undef
\* of X: the context the header leaves is the context the including file
\* goes on with.
C13_HeaderDefinesVisible ==
  \A j, k \in DOMAIN trace :
    LET f == resolve_include_path(trace[j].line.a,
                                  IF trace[j].line.q THEN trace[j].file ELSE None)
        u == trace[k]
    IN /\ NextAfterInclude(j, k)
       /\ Unconditionally(f)
       /\ u.line.k \in {"ifdef", "ifndef"} /\ LastOp(f, u.line.a) # None
       => /\ u.dec = IF u.line.k = "ifdef" THEN LastOp(f, u.line.a)
                     ELSE Not(LastOp(f, u.line.a))
          /\ is_defined(u.ctx, u.line.a) = LastOp(f, u.line.a)

\* C13 witness: a header included a header that defines X and then undefines
\* it, and its own "#ifndef X" on the next line was decided true
C13_Witness ==
  \E j, k \in DOMAIN trace :
    /\ NextAfterInclude(j, k)
    /\ trace[j].line.a = "a.h" /\ files["a.h"] = <<Define("X"), Undef("X")>>
    /\ trace[k].file = "b.h" /\ trace[k].line = Ifndef("X")
    /\ trace[k].dec = "True"

\* --- the lexical structure of a C++ text, to state what the scanner should
\* see: st is "normal", "string" (inside a string literal), "char" (inside a
\* character literal), "block" or "line" (inside a comment); esc: the last
\* character was an escaping backslash; prev: the last character when it
\* may start or end a comment; lit: the text of the literal being read or
\* just closed; closed: the last character closed a literal; broken: a line
\* break fell inside a literal, after which the text has no agreed reading
LexStart ==
  [st |-> "normal", esc |-> FALSE, prev |-> "", lit |-> <<>>, closed |-> FALSE,
   broken |-> FALSE]

LexStep(L, c) ==
  LET plain == [L EXCEPT !.closed = FALSE, !.prev = "", !.esc = FALSE] IN
  CASE L.st = "normal" ->
         IF c = DQ THEN [plain EXCEPT !.st = "string", !.lit = <<c>>]
         ELSE IF c = SQ THEN [plain EXCEPT !.st = "char", !.lit = <<c>>]
         ELSE IF c = "*" /\ L.prev = "/" THEN [plain EXCEPT !.st = "block"]
         ELSE IF c = "/" /\ L.prev = "/" THEN [plain EXCEPT !.st = "line"]
         ELSE [plain EXCEPT !.prev = c]
    [] L.st \in {"string", "char"} ->
         IF c = NL THEN [plain EXCEPT !.broken = TRUE]
         ELSE IF L.esc THEN [plain EXCEPT !.lit = Append(@, c)]
         ELSE IF c = BS THEN [plain EXCEPT !.lit = Append(@, c), !.esc = TRUE]
         ELSE IF c = (IF L.st = "string" THEN DQ ELSE SQ)
         THEN [plain EXCEPT !.st = "normal", !.lit = Append(@, c), !.closed = TRUE]
         ELSE [plain EXCEPT !.lit = Append(@, c)]
    [] L.st = "block" ->
         IF c = "/" /\ L.prev = "*" THEN [plain EXCEPT !.st = "normal"]
         ELSE [plain EXCEPT !.prev = c]
    [] OTHER ->
         IF c = NL THEN [plain EXCEPT !.st = "normal"] ELSE plain

RECURSIVE Lex(_)
Lex(s) == IF s = <<>> THEN LexStart ELSE LexStep(Lex(Front(s)), Last(s))

\* the text the scanner has gone through: the finished physical lines and
\* the characters of the current line before index p
Consumed ==
  IF reader.lines = <<>> THEN Finished
  ELSE Finished \o SubSeq(reader.lines[1], 1, reader.p - 1)

IsSuffix(x, s) ==
  Len(x) <= Len(s) /\ SubSeq(s, Len(s) - Len(x) + 1, Len(s)) = x

\* C14 as claimed: the scanner is in one of three states: normal, inside a
\* string literal or inside a block comment; while the text is inside a
\* string or character literal no comment starts ("//" and "/*" stay in the
\* code text), a double quote inside a character literal and an escaped quote
\* inside a string literal neither open nor close a string, and after every
\* complete literal the scanner is in the normal state with the literal in
\* the code text (for texts whose literals hold no line break).
C14_LiteralHandling ==
  /\ ~(reader.in_string /\ reader.in_block_comment)
  /\ reader.lines # <<>> /\ reader.skipping = 0 =>
       LET L == Lex(Consumed) IN
       ~L.broken =>
       /\ L.st \in {"string", "char"} =>
            /\ ~reader.in_block_comment
            /\ ~(reader.broke /\ ~reader.continue_to_next_line)
       /\ L.st = "char" => ~reader.in_string
       /\ L.st = "string" => reader.in_string
       /\ L.closed =>
            /\ ~reader.in_string /\ ~reader.in_block_comment
            /\ IsSuffix(L.lit, reader.code)

\* the physical line ends with a backslash followed only by whitespace
TrailingBackslash(line) ==
  \E i \in 1..Len(line) :
    line[i] = BS /\ \A j \in (i + 1)..Len(line) : line[j] \in Whitespace

\* the scan of the finished physical line e went up to its end, or up to its
\* trailing backslash: it was not cut short by a "//" comment
ReachedEnd(e) == ~(e.broke /\ ~e.continue_to_next_line)

\* C15 as claimed: a physical line that ends with a backslash (and optional
\* whitespace) is joined with the next one in whatever state the scanner
\* reaches the backslash, and so is a line that ends inside an open block
\* comment; a logical line is emitted exactly at the end of a physical line
\* with no open block comment and no trailing continuation, and once more at
\* the end of the stream for what is left.
C15_LineJoining ==
  /\ \A i \in DOMAIN reader.ends :
       LET e == reader.ends[i]
           joined == e.in_block_comment
                     \/ (TrailingBackslash(e.line) /\ ReachedEnd(e))
       IN e.emitted <=> ~joined
  /\ status = "done" =>
       /\ reader.raw = <<>>
       /\ Concat([i \in DOMAIN reader.yielded |-> reader.yielded[i].raw]) = source

\* expand is about to handle the #else of a DeterminedIfBlock
AtDeterminedElse ==
  /\ HasLine /\ Item.line.k = "else" /\ ifblocks # <<>>
  /\ Last(ifblocks).cls = "DeterminedIfBlock"

\* C16 as claimed: the #else of a Determined frame sets in_unreachable_block
\* to the negation of the value it had just before the #else, so that the
\* else-branch is reachable exactly when the frame's recorded outcome is
\* false, whatever blocks were opened and closed inside the first branch.
C16_DeterminedElseFlips ==
  [][AtDeterminedElse =>
       /\ status' = status
       /\ in_unreachable_block' = ~in_unreachable_block
       /\ ~in_unreachable_block' <=> Last(ifblocks).determined = "False"]_vars

\* the active context when expand took the k-th line: the context after the
\* line before it
CtxBefore(k) == IF k = 1 THEN EmptyContext ELSE trace[k - 1].ctx

\* the source line the k-th line handled by expand was made from
SourceLine(k) ==
  IF Last(trace[k].at) <= Len(files[trace[k].file])
  THEN files[trace[k].file][Last(trace[k].at)] ELSE Endif

Known(c, n) == n \in c.defined \cup c.not_defined

\* C17: an opening directive reached in reachable code pushes a Determined
\* frame exactly when it is, after normalization, "#ifdef X" or "#ifndef X"
\* with X known-defined or known-undefined in the active context, and the
\* outcome is "X is defined" for #ifdef and "X is not defined" for #ifndef;
\* an #if (or #elif) whose expression is not defined(X) / !defined(X) always
\* pushes an Undetermined frame, and "#if defined(X)" / "#if !defined(X)"
\* reach expand as "#ifdef X" / "#ifndef X".
C17_Decidability ==
  \A k \in DOMAIN trace :
    LET t == trace[k]
        c == CtxBefore(k)
        s == SourceLine(k)
    IN t.line.k \in IfLike /\ t.dec # "placeholder" =>
         /\ t.dec \in {"True", "False"}
              <=> t.line.k \in {"ifdef", "ifndef"} /\ Known(c, t.line.a)
         /\ t.dec = "True"
              <=> \/ t.line.k = "ifdef" /\ t.line.a \in c.defined
                  \/ t.line.k = "ifndef" /\ t.line.a \in c.not_defined
         /\ t.dec \in {"True", "False", "undetermined"}
         /\ t.line.k = "if" =>
              /\ t.dec = "undetermined"
              /\ s.k \in {"if", "elif"} /\ s.a = t.line.a
              /\ re_ifdef(s.a) = NoMatch
         /\ s.k \in {"if", "elif"} /\ re_ifdef(s.a) # NoMatch =>
              t.line = IF re_ifdef(s.a).neg THEN Ifndef(re_ifdef(s.a).id)
                       ELSE Ifdef(re_ifdef(s.a).id)
         /\ k = Len(trace) /\ ifblocks # <<>> =>
              Last(ifblocks).cls = IF t.dec = "undetermined"
                                   THEN "UndeterminedIfBlock"
                                   ELSE "DeterminedIfBlock"
         /\ k = Len(trace) /\ ifblocks # <<>> /\ t.dec # "undetermined" =>
              Last(ifblocks).determined = t.dec

\* C17 witness: a finished run in which "#if E1" pushed an Undetermined frame
\* and the "#elif defined(X)" after it, with X defined, a Determined one
C17_Witness ==
  /\ status = "done"
  /\ \E j, k \in DOMAIN trace :
       /\ trace[j].line = If("E1") /\ trace[j].dec = "undetermined"
       /\ SourceLine(k) = Elif("defined(X)")
       /\ trace[k].line = Ifdef("X") /\ trace[k].dec = "True"

\* the index in the trace of the line handled at position at (0: not yet)
EventAt(at) ==
  LET ks == {k \in DOMAIN trace : trace[k].at = at}
  IN IF ks = {} THEN 0 ELSE CHOOSE k \in ks : \A j \in ks : k <= j

\* for the block opened by the o-th line of the trace: the positions in the
\* trace of its #else and of its #endif (0: none, or not yet handled)
ElseEvent(o) ==
  IF ElseLines(trace[o]) = {} THEN 0
  ELSE EventAt(Append(Front(trace[o].at), ElseLine(trace[o])))
EndifEvent(o) == EventAt(Append(Front(trace[o].at), EndifLine(trace[o])))

\* the o-th line of the trace opened an Undetermined frame for a block
\* written in one file, and the block's #endif has been handled
ClosedUndetermined(o) ==
  /\ trace[o].dec = "undetermined" /\ OpensSimpleBlock(trace[o])
  /\ SourceLine(o).k \in IfLike
  /\ EndifEvent(o) # 0
  /\ ElseLines(trace[o]) # {} => ElseEvent(o) # 0

\* the contexts at the end of the two branches of such a block, and after it
TrueEnd(o) ==
  trace[(IF ElseEvent(o) # 0 THEN ElseEvent(o) ELSE EndifEvent(o)) - 1].ctx
FalseEnd(o) ==
  IF ElseEvent(o) # 0 THEN trace[EndifEvent(o) - 1].ctx
  ELSE false_fork(trace[o].line, CtxBefore(o))
After(o) == trace[EndifEvent(o)].ctx

\* the include guard pattern: "#ifndef X" whose true branch ends with X
\* defined, and no #else
GuardPattern(o) ==
  /\ trace[o].line.k = "ifndef" /\ ElseEvent(o) = 0
  /\ trace[o].line.a \in TrueEnd(o).defined

\* C18: after the #endif of an Undetermined frame that is not the include
\* guard pattern, the names known-defined are those known-defined at the end
\* of both branches and the names known-undefined those known-undefined at
\* the end of both; so the tested name of an "#ifdef X" block that does not
\* touch X is unknown after the block, and so is a name defined in one
\* branch only.
C18_ConservativeMerge ==
  \A o \in DOMAIN trace :
    ClosedUndetermined(o) /\ ~GuardPattern(o) =>
      LET after == After(o)
          tend == TrueEnd(o)
          fend == FalseEnd(o)
      IN /\ after.defined = tend.defined \cap fend.defined
         /\ after.not_defined = tend.not_defined \cap fend.not_defined
         /\ \A n \in {"X", "Y"} :
              is_defined(tend, n) # is_defined(fend, n)
                => is_defined(after, n) = None

\* C18 witness: a finished run with a block "#if E1 / ... / #else / ... /
\* #endif" that defines X in its true branch only, and X unknown after it
C18_Witness ==
  /\ status = "done"
  /\ \E o \in DOMAIN trace :
       /\ ClosedUndetermined(o) /\ trace[o].line = If("E1") /\ ElseEvent(o) # 0
       /\ is_defined(CtxBefore(o), "X") = None
       /\ is_defined(TrueEnd(o), "X") = "True"
       /\ is_defined(FalseEnd(o), "X") = None
       /\ is_defined(After(o), "X") = None

\* C19: at the #endif of an Undetermined frame opened by "#ifndef X" with no
\* #else, when X is known-defined at the end of the body, the context after
\* the block is the context at the end of the body, whole: what the body
\* defined and undefined is carried forward, and an "#ifndef X" reached later
\* while X is still defined is Determined false. In every other case the
\* context after the block is the merge of the two forks.
C19_GuardCarryover ==
  \A o \in DOMAIN trace :
    ClosedUndetermined(o) =>
      LET end == EndifEvent(o)
          tend == TrueEnd(o)
      IN IF GuardPattern(o)
         THEN /\ trace[end].ctx = tend
              /\ \A k \in (end + 1)..Len(trace) :
                   /\ trace[k].line = trace[o].line
                   /\ trace[k].dec # "placeholder"
                   /\ \A m \in end..(k - 1) :
                        trace[o].line.a \in trace[m].ctx.defined
                   => trace[k].dec = "False"
         ELSE trace[end].ctx = merge(tend, FalseEnd(o))

\* C19 witness: a finished run that expanded a header "#ifndef G / #define G
\* / #define X / #endif" twice: X is known-defined after the first
\* expansion, the second "#ifndef G" was decided false, and an "#ifdef X" of
\* the top-level file was decided true
C19_Witness ==
  /\ status = "done"
  /\ \E o, k, x \in DOMAIN trace :
       /\ ClosedUndetermined(o) /\ GuardPattern(o)
       /\ trace[o].line = Ifndef("G")
       /\ is_defined(CtxBefore(o), "X") = None
       /\ is_defined(After(o), "X") = "True"
       /\ k > EndifEvent(o) /\ trace[k].line = Ifndef("G")
       /\ trace[k].dec = "False"
       /\ x > k /\ trace[x].line = Ifdef("X") /\ trace[x].file = "main"
       /\ trace[x].dec = "True"

\* the lines expand took that are the "#define <guard>" the translator puts
\* in the place of a "#pragma once"
GuardDefines ==
  {e \in Events : e.synth /\ e.line.k = "define"
                  /\ e.line.a = macro_name(e.file)}

\* C20 as claimed: the synthetic guard #define is applied to the macro
\* context, and its line is not written to the output.
C20_GuardDefineSuppressed ==
  \A e \in GuardDefines :
    /\ e.line.a \in e.ctx.defined
    /\ \A x \in Written : ~(x.at = e.at /\ x.line = e.line)

\* C20 amended: the synthetic guard #define is handled like any #define:
\* reached in reachable code (the first expansion of the file, its
\* "#ifndef <guard>" undecided) it is applied to the macro context and its
\* line "#define <guard>" is written to the output; reached in unreachable
\* code (a later expansion, the guard known-defined and the "#ifndef <guard>"
\* decided false) it is dropped with the rest of the file. The guard is
\* known-defined after it in both cases.
C20_GuardDefineWritten ==
  /\ \A e \in Events :
       e.synth /\ e.line.k = "define" => e \in GuardDefines
  /\ \A e \in GuardDefines :
       /\ e.line.a \in e.ctx.defined
       /\ e.act = IF e.reach THEN "write" ELSE "drop"
       /\ e.reach <=>
            \E x \in Written : x.at = e.at /\ x.line = e.line /\ x.synth

\* C20 witness: a finished run that expanded a "#pragma once" header twice:
\* the first time its "#define <guard>" was written, the second time dropped
C20_Witness ==
  /\ status = "done"
  /\ \E e, u \in GuardDefines :
       /\ e.file = u.file /\ e.at # u.at
       /\ e.act = "write" /\ u.act = "drop"
       /\ \E x \in Written : x.at = e.at /\ x.line = Define(macro_name(e.file))

\* C21: a line after whose conditional handling in_unreachable_block is true
\* has no effect: nothing is written, the macro contexts and the active
\* context are unchanged, no include is handed to resolution, no file is
\* opened and no expand call is made, whether the line is plain code, a
\* #define, an #undef, an #include or a conditional directive.
C21_UnreachableInert ==
  [][HasLine /\ in_unreachable_block' =>
       /\ outfile' = outfile
       /\ heap' = heap /\ context' = context
       /\ resolved' = resolved /\ opened' = opened
       /\ Len(stack') = Len(stack)]_vars

\* C21 witness: a finished run that dropped an "#undef X" and an #include of
\* an existing file in a branch not taken: X is still known-defined after the
\* #undef and no file but the top-level one was opened
C21_Witness ==
  /\ status = "done"
  /\ opened = <<"main">> /\ resolved = <<>>
  /\ \E t, u \in Events :
       /\ ~t.reach /\ t.line = Undef("X") /\ t.act = "drop"
       /\ is_defined(t.ctx, "X") = "True"
       /\ ~u.reach /\ u.line = Include("a.h", TRUE) /\ u.act = "drop"

\* the frame b is in the branch its condition selects; a placeholder never is
Taken(b) ==
  CASE b.cls = "DeterminedIfBlock" -> (b.current <=> b.determined = "True")
    [] b.cls = "IfBlock" -> FALSE
    [] OTHER -> TRUE

\* expand is about to handle a line with the innermost frame of class cls
AtFrame(kinds, cls) ==
  /\ HasLine /\ Item.line.k \in kinds
  /\ ifblocks # <<>> /\ Last(ifblocks).cls = cls

\* C22 as claimed: an opening directive handled while in_unreachable_block is
\* true pushes a placeholder, never a Determined or Undetermined frame; the
\* #else and the #endif of a placeholder change neither in_unreachable_block
\* nor the macro context; and when the #endif of a Determined frame clears
\* the flag, the code after it is reachable: no frame still open is a
\* placeholder or a Determined frame in the branch its outcome does not
\* select.
C22_PlaceholdersOnly ==
  [][/\ HasLine /\ Item.line.k \in IfLike /\ in_unreachable_block =>
          /\ Len(ifblocks') = Len(ifblocks) + 1
          /\ Last(ifblocks').cls = "IfBlock"
          /\ in_unreachable_block' /\ heap' = heap /\ context' = context
     /\ AtFrame({"else", "endif"}, "IfBlock") =>
          /\ in_unreachable_block' = in_unreachable_block
          /\ heap' = heap /\ context' = context
     /\ AtFrame({"endif"}, "DeterminedIfBlock") =>
          /\ ~in_unreachable_block'
          /\ \A i \in DOMAIN ifblocks' : Taken(ifblocks'[i])]_vars

\* the opening directives less the #endif lines among the lines K of the
\* stream expand has handled
Net(K) ==
  Cardinality({k \in K : trace[k].line.k \in IfLike})
  - Cardinality({k \in K : trace[k].line.k = "endif"})

\* the lines handled by the call c of expand and by the calls made from it
Within(c) ==
  {k \in DOMAIN trace :
     Len(trace[k].at) > Len(c.at) /\ IsPrefix(c.at, trace[k].at)}

\* the file of the call c and every file expanded from it are balanced
BalancedCall(c) ==
  /\ Balanced(files[c.file])
  /\ \A k \in Within(c) : Balanced(files[trace[k].file])

\* C23: the depth of the block stack is always the number of opening
\* directives less the number of #endif lines in the normalized stream handled
\* so far, reachable or not; an #else or #endif never finds the stack empty;
\* and a call of expand on balanced files returns with the depth and the
\* reachability it was entered with: the lines it handled open as many
\* frames as they close and the last of them leaves the code reachable.
C23_DepthInvariant ==
  /\ Len(ifblocks) = Net(DOMAIN trace)
  /\ HasLine /\ Item.line.k \in {"else", "endif"} => ifblocks # <<>>
  /\ \A c \in Calls :
       Returned(c) =>
         LET K == Within(c) IN
         \/ /\ Net(K) = 0
            /\ \A k \in K : (\A j \in K : j <= k) => trace[k].reach
            /\ c.at = <<>> => ifblocks = <<>> /\ ~in_unreachable_block
         \/ ~BalancedCall(c)

\* C23 witness: a finished run over a balanced file in which a frame was
\* opened in unreachable code (a placeholder) inside another frame, and both
\* were closed again
C23_Witness ==
  /\ status = "done" /\ ifblocks = <<>>
  /\ BalancedCall([at |-> <<>>, file |-> "main", ctx |-> EmptyContext])
  /\ \E t \in Events : t.dec = "placeholder"
  /\ Cardinality({k \in DOMAIN trace : trace[k].line.k \in IfLike}) >= 2

\* contexts[current] and contexts[not current] of an Undetermined frame
ActiveFork(b) == IF b.current THEN b.contexts.t ELSE b.contexts.f
InactiveFork(b) == IF b.current THEN b.contexts.f ELSE b.contexts.t

Undetermined(blocks) ==
  {i \in DOMAIN blocks : blocks[i].cls = "UndeterminedIfBlock"}

Innermost(blocks) ==
  CHOOSE i \in Undetermined(blocks) : \A j \in Undetermined(blocks) : j <= i

\* C24: after every line, when an Undetermined frame is open and the code is
\* reachable, the active context is the very context object held as the
\* active fork of the innermost open Undetermined frame; and the #endif of an
\* Undetermined block nested in another makes the new context the active
\* fork of the enclosing frame, whose other fork, and the branch it is in,
\* stay as they were.
C24_ActiveContext ==
  [][HasLine =>
       /\ Undetermined(ifblocks') # {} /\ ~in_unreachable_block' =>
            context' = ActiveFork(ifblocks'[Innermost(ifblocks')])
       /\ AtFrame({"endif"}, "UndeterminedIfBlock") /\ Undetermined(ifblocks') # {} =>
            LET i == Innermost(ifblocks')
                was == ifblocks[i]
                now == ifblocks'[i]
            IN /\ context' > Len(heap)
               /\ heap'[context'] = endif_context(Last(ifblocks), heap)
               /\ ActiveFork(now) = context'
               /\ now.current = was.current
               /\ InactiveFork(now) = InactiveFork(was)
               /\ heap'[InactiveFork(now)] = heap[InactiveFork(was)]]_vars

\* C24 witness: inside the true branch of "#if E1", after an inner include
\* guard block that defines Y, "#ifdef Y" is decided true; Y is unknown in
\* the #else branch of "#if E1", which defines it in both branches of an
\* inner block; and after the outer #endif "#ifdef Y" is decided true again
C24_Witness ==
  /\ status = "done"
  /\ files["main"] =
       <<If("E1"), Ifndef("Y"), Define("Y"), Endif, Ifdef("Y"), Code, Endif,
         Else, If("E2"), Define("Y"), Else, Define("Y"), Endif, Endif,
         Ifdef("Y"), Code, Endif>>
  /\ trace[5].line = Ifdef("Y") /\ trace[5].dec = "True"
  /\ trace[8].line = Else /\ is_defined(trace[8].ctx, "Y") = None
  /\ trace[15].line = Ifdef("Y") /\ trace[15].dec = "True"

\* the context c with the name tested by the opening directive d recorded as
\* it stands when the condition of d is false
Snapshot(d, c) ==
  CASE d.k = "ifdef" ->
         [defined |-> c.defined \ {d.a}, not_defined |-> c.not_defined \cup {d.a}]
    [] d.k = "ifndef" ->
         [defined |-> c.defined \cup {d.a}, not_defined |-> c.not_defined \ {d.a}]
    [] OTHER -> c

\* C25: the context at the #else of an Undetermined block is the context at
\* the block's entry, with the tested name recorded as the false outcome
\* implies for #ifdef / #ifndef, whatever the true branch defined or
\* undefined; and the context after the #endif is the merge of the context at
\* the end of the true branch with the one at the end of the #else branch:
\* what the #else branch did has not changed the true branch's fork.
C25_ForkIsolation ==
  \A o \in DOMAIN trace :
    ClosedUndetermined(o) /\ ElseEvent(o) # 0 =>
      LET entry == CtxBefore(o)
          atelse == trace[ElseEvent(o)].ctx
          tend == trace[ElseEvent(o) - 1].ctx
          fend == trace[EndifEvent(o) - 1].ctx
          after == trace[EndifEvent(o)].ctx
      IN /\ atelse = Snapshot(trace[o].line, entry)
         /\ after.defined = tend.defined \cap fend.defined
         /\ after.not_defined = tend.not_defined \cap fend.not_defined

\* C25 witness: a finished run of "#if E1 / #define X / #else / #undef X /
\* #endif" with X unknown at entry: X is unknown at the #else, known-defined
\* at the end of the true branch, known-undefined at the end of the #else
\* branch and unknown after the block
C25_Witness ==
  /\ status = "done"
  /\ \E o \in DOMAIN trace :
       /\ ClosedUndetermined(o) /\ ElseEvent(o) # 0
       /\ trace[o].line = If("E1")
       /\ is_defined(CtxBefore(o), "X") = None
       /\ trace[ElseEvent(o) - 1].line = Define("X")
       /\ is_defined(trace[ElseEvent(o)].ctx, "X") = None
       /\ trace[EndifEvent(o) - 1].line = Undef("X")
       /\ is_defined(trace[EndifEvent(o) - 1].ctx, "X") = "False"
       /\ is_defined(trace[EndifEvent(o)].ctx, "X") = None

\* the line of the first "#pragma once" of file f outside every block (0: none)
OnceLine(f) ==
  LET I == {i \in 1..Len(files[f]) : FirstTopOnce(files[f], i)}
  IN IF I = {} THEN 0 ELSE CHOOSE i \in I : TRUE

\* the file the #include handled as the j-th line of the trace resolves to
Target(j) ==
  resolve_include_path(trace[j].line.a,
                       IF trace[j].line.q THEN trace[j].file ELSE None)

\* the frame pushed by the o-th line of the trace is still open when the
\* j-th line is handled
OpenAt(o, j) == \A m \in (o + 1)..(j - 1) : Net((o + 1)..m) >= 0

\* an Undetermined frame is open when the j-th line of the trace is handled
InUndetermined(j) ==
  \E o \in 1..(j - 1) : trace[o].dec = "undetermined" /\ OpenAt(o, j)

\* the k-th line of the trace is handled inside the call of expand made by
\* the j-th
Inside(j, k) ==
  Len(trace[k].at) > Len(trace[j].at) /\ IsPrefix(trace[j].at, trace[k].at)

\* an Undetermined frame opened by the including file itself, in the same
\* call of expand, is open when the j-th line of the trace is handled
InOwnUndetermined(j) ==
  \E o \in 1..(j - 1) :
    /\ trace[o].dec = "undetermined" /\ OpenAt(o, j)
    /\ trace[o].file = trace[j].file /\ Front(trace[o].at) = Front(trace[j].at)

\* the j-th and k-th lines of the trace are two expanded #include lines of
\* the same balanced "#pragma once" header, and the "#define <guard>" of
\* the first expansion was handled before the second
Twice(j, k) ==
  /\ j < k /\ trace[j].act = "expand" /\ trace[k].act = "expand"
  /\ Target(j) = Target(k)
  /\ OnceLine(Target(j)) # 0 /\ Balanced(files[Target(j)])
  /\ \E g \in (j + 1)..(k - 1) :
       /\ trace[g].at = Append(trace[j].at, OnceLine(Target(j)))
       /\ trace[g].line = Define(macro_name(Target(j)))

\* ... the first made with no Undetermined frame open at all, or still going
\* on at the second
IncludedAgain(j, k) ==
  Twice(j, k) /\ (~InUndetermined(j) \/ Inside(j, k))

\* nothing is written from the lines of the k-th line's expansion that
\* follow the pragma, the guard lines included
Skipped(k) ==
  \A x \in Written :
    Len(x.at) > Len(trace[k].at) /\ IsPrefix(trace[k].at, x.at)
    => x.at[Len(trace[k].at) + 1] < OnceLine(Target(k))

Opens(n) == Cardinality({i \in 1..n : outfile[i].line.k \in IfLike})
Closes(n) == Cardinality({i \in 1..n : outfile[i].line.k = "endif"})

\* every file opened so far is balanced
AllBalanced == \A i \in DOMAIN opened : Balanced(files[opened[i]])

\* the o-th line of the trace opened a frame for a block written in one
\* file, and the block's #else and #endif have been handled
ClosedBlock(o) ==
  /\ trace[o].line.k \in IfLike /\ OpensSimpleBlock(trace[o])
  /\ SourceLine(o).k \in IfLike
  /\ EndifEvent(o) # 0
  /\ ElseLines(trace[o]) # {} => ElseEvent(o) # 0

\* C27: while every file expanded is balanced, every prefix of the output
\* holds at most as many #endif lines as opening directives and every #else
\* written follows more opening directives than #endif lines; when the run
\* has finished the two counts are equal; and the opening directive of a
\* block is written exactly when its #endif is, and when its #else is.
C27_BalancedOutput ==
  \/ /\ \A n \in DOMAIN outfile :
           /\ Closes(n) <= Opens(n)
           /\ outfile[n].line.k = "else" => Closes(n) < Opens(n)
     /\ status = "done" => Closes(Len(outfile)) = Opens(Len(outfile))
     /\ \A o \in DOMAIN trace :
           trace[o].line.k \in IfLike /\ ClosedBlock(o) =>
             LET end == EndifEvent(o)
                 mid == ElseEvent(o)
             IN /\ trace[o].act = "write" <=> trace[end].act = "write"
                /\ mid # 0 =>
                     (trace[o].act = "write" <=> trace[mid].act = "write")
  \/ ~AllBalanced
  \/ status \notin {"running", "done"}

\* C27 witness: a finished run over a balanced file that wrote two blocks in
\* full, one of them with its #else, and left out the three directives of a
\* decided block with an #else
C27_Witness ==
  /\ status = "done" /\ AllBalanced
  /\ Opens(Len(outfile)) >= 2 /\ Closes(Len(outfile)) = Opens(Len(outfile))
  /\ \E i \in DOMAIN outfile : outfile[i].line = Else
  /\ \E o \in DOMAIN trace :
       /\ ClosedBlock(o) /\ ElseEvent(o) # 0
       /\ trace[o].dec \in {"True", "False"} /\ trace[o].act = "silent"
       /\ trace[ElseEvent(o)].act # "write"
       /\ trace[EndifEvent(o)].act = "silent"

====
